---- MODULE Spec2Model ----
(***************************************************************************)
(* Model of the toggle-done command of the Tasks plugin (toggleDone,        *)
(* toggleLine, calculateCursorOffset) and of the plugin's query read        *)
(* interface (oneHotResolveQueryToTasks).                                   *)
(*                                                                         *)
(* A line of text is a sequence of UTF-16 code units, each written as a    *)
(* one-element string.  The emoji of the task grammar are written by their *)
(* code units: "u2705" is the done mark (one unit), "uD83D","uDCC5" the    *)
(* due-date calendar (two units) and "uD83D","uDD01" the recurrence mark   *)
(* (two units), so that the length of a line is its JavaScript .length.    *)
(***************************************************************************)
EXTENDS Integers, Sequences, FiniteSets, TLC

----------------------------------------------------------------------------
(* Bounds of the model. *)

\* The editor never holds more than this many lines.
MaxDocLines == 3

\* Longest string of the small alphabet handed to calculateCursorOffset.
MaxLen == 2

\* How far past the end of the old line an offset handed to
\* calculateCursorOffset may lie.
MaxOver == 2

----------------------------------------------------------------------------
(* Characters. *)

NL == "\n"
DoneMark == "u2705"
SurrHi == "uD83D"
DueLo == "uDCC5"
RecLo == "uDD01"
DueMark == <<SurrHi, DueLo>>
RecMark == <<SurrHi, RecLo>>

Digits == {"0", "1", "2", "3", "4", "5", "6", "7", "8", "9"}

DigitVal(c) ==
    CASE c = "0" -> 0 [] c = "1" -> 1 [] c = "2" -> 2 [] c = "3" -> 3
      [] c = "4" -> 4 [] c = "5" -> 5 [] c = "6" -> 6 [] c = "7" -> 7
      [] c = "8" -> 8 [] c = "9" -> 9

DigitChar(n) == <<"0", "1", "2", "3", "4", "5", "6", "7", "8", "9">>[n + 1]

Min(a, b) == IF a <= b THEN a ELSE b

\* s.substring(from - 1, to) of a sequence, 1-based and inclusive; empty
\* when to < from.
Slice(s, from, to) == [i \in 1..(to - from + 1) |-> s[from + i - 1]]

\* s.includes(sub)
Includes(s, sub) ==
    \E i \in 0..(Len(s) - Len(sub)) : Slice(s, i + 1, i + Len(sub)) = sub

\* s.trim() for the white space the lines of the model hold.
IsSpaceChar(c) == c \in {" ", "\t", NL}

TrimEnd(s) ==
    LET n == CHOOSE k \in 0..Len(s) :
                 /\ k = 0 \/ ~IsSpaceChar(s[k])
                 /\ \A i \in (k + 1)..Len(s) : IsSpaceChar(s[i])
    IN  Slice(s, 1, n)

TrimStart(s) ==
    LET n == CHOOSE k \in 0..Len(s) :
                 /\ k = Len(s) \/ ~IsSpaceChar(s[k + 1])
                 /\ \A i \in 1..k : IsSpaceChar(s[i])
    IN  Slice(s, n + 1, Len(s))

Trim(s) == TrimStart(TrimEnd(s))

----------------------------------------------------------------------------
(* TaskRegularExpressions.  The class is imported by the source files but  *)
(* is not among them; the patterns are those the specification names:      *)
(* optional leading indentation, a list marker (-, * or numbered), an      *)
(* optional status box [<symbol>], then body text.                         *)

\* indentationRegex = /^([\s\t>]*)/ : the length of the match.
IsIndentChar(c) == c \in {" ", "\t", NL, ">"}

IndentLen(l) ==
    CHOOSE k \in 0..Len(l) :
        /\ \A i \in 1..k : IsIndentChar(l[i])
        /\ k = Len(l) \/ ~IsIndentChar(l[k + 1])

\* The length of the longest run of characters of the class C in l that
\* starts at position p + 1.
RunLen(l, p, C) ==
    CHOOSE k \in 0..(Len(l) - p) :
        /\ \A i \in 1..k : l[p + i] \in C
        /\ p + k = Len(l) \/ l[p + k + 1] \notin C

\* listMarkerRegex = /([-*]|[0-9]+\.)/ matched at position p + 1: the length
\* of the marker, 0 when there is none.
MarkerLen(l, p) ==
    IF p < Len(l) /\ l[p + 1] \in {"-", "*"} THEN 1
    ELSE LET d == RunLen(l, p, Digits)
         IN  IF d > 0 /\ p + d < Len(l) /\ l[p + d + 1] = "." THEN d + 1 ELSE 0

\* listItemRegex = indentationRegex + listMarkerRegex
listItemRegexTest(l) == MarkerLen(l, IndentLen(l)) > 0

\* taskRegex = indentation, list marker, ' +', '\[(.)\]', ' *(.*)'.
\* The positions of the match: k indentation, m marker, s spaces before the
\* box, t spaces after it.
TaskBoxAt(l) ==
    LET k == IndentLen(l)
        m == MarkerLen(l, k)
        s == RunLen(l, k + m, {" "})
        b == k + m + s
        t == IF b + 3 <= Len(l) THEN RunLen(l, b + 3, {" "}) ELSE 0
    IN  [k |-> k, m |-> m, s |-> s, b |-> b, t |-> t]

taskRegexTest(l) ==
    LET p == TaskBoxAt(l)
    IN  /\ p.m > 0
        /\ p.s > 0
        /\ p.b + 3 <= Len(l)
        /\ l[p.b + 1] = "["
        /\ l[p.b + 2] # NL
        /\ l[p.b + 3] = "]"

\* The capture groups $1 (indentation), $2 (list marker), $3 (status symbol)
\* and $4 (body) of a line taskRegex matches.
taskRegexMatch(l) ==
    LET p == TaskBoxAt(l)
    IN  [indentation |-> Slice(l, 1, p.k),
         listMarker  |-> Slice(l, p.k + 1, p.k + p.m),
         status      |-> l[p.b + 2],
         body        |-> Slice(l, p.b + 3 + p.t + 1, Len(l))]

\* A date literal \d{4}-\d{2}-\d{2}
IsDateText(d) ==
    /\ Len(d) = 10
    /\ \A i \in {1, 2, 3, 4, 6, 7, 9, 10} : d[i] \in Digits
    /\ d[5] = "-"
    /\ d[8] = "-"

\* The length of the match of <mark> *(\d{4}-\d{2}-\d{2})$ at the end of l,
\* 0 when l does not end so.
DateSuffixLen(l, mark) ==
    IF Len(l) >= 10 /\ IsDateText(Slice(l, Len(l) - 9, Len(l)))
    THEN LET sp == CHOOSE k \in 0..(Len(l) - 10) :
                       /\ \A i \in 1..k : l[Len(l) - 10 - i + 1] = " "
                       /\ k = Len(l) - 10 \/ l[Len(l) - 10 - k] # " "
             e  == Len(l) - 10 - sp
         IN  IF e >= Len(mark) /\ Slice(l, e - Len(mark) + 1, e) = mark
             THEN Len(mark) + sp + 10
             ELSE 0
    ELSE 0

\* doneDateRegex = /<done mark> *(\d{4}-\d{2}-\d{2})$/u
doneDateRegexTest(l) == DateSuffixLen(l, <<DoneMark>>) > 0

----------------------------------------------------------------------------
(* Status and StatusRegistry.  Neither class is among the source files:    *)
(* bySymbol never fails and resolves an unregistered symbol to a built-in  *)
(* to-do-like default; every status names the symbol of its successor.     *)

StatusTODO == [symbol |-> " ", nextStatusSymbol |-> "x", done |-> FALSE]
StatusDONE == [symbol |-> "x", nextStatusSymbol |-> " ", done |-> TRUE]

\* The minimal two-status configuration: to-do -> done -> to-do.
TwoStatusRegistry == {StatusTODO, StatusDONE}

\* A longer configured cycle: to-do -> in progress -> done -> to-do.
ThreeStatusRegistry ==
    {[symbol |-> " ", nextStatusSymbol |-> "/", done |-> FALSE],
     [symbol |-> "/", nextStatusSymbol |-> "x", done |-> FALSE],
     StatusDONE}

Registries == {TwoStatusRegistry, ThreeStatusRegistry}

IsRegistered(reg, sym) == \E s \in reg : s.symbol = sym

bySymbol(reg, sym) ==
    IF IsRegistered(reg, sym)
    THEN CHOOSE s \in reg : s.symbol = sym
    ELSE StatusTODO

----------------------------------------------------------------------------
(* Dates and the recurrence resolver (not among the source files).         *)

Null == <<>>

\* The injected current date, 2024-01-15.
Today == <<"2", "0", "2", "4", "-", "0", "1", "-", "1", "5">>

TwoDigits(n) == <<DigitChar(n \div 10), DigitChar(n % 10)>>

FourDigits(n) ==
    <<DigitChar((n \div 1000) % 10), DigitChar((n \div 100) % 10),
      DigitChar((n \div 10) % 10), DigitChar(n % 10)>>

YearOf(d) ==
    DigitVal(d[1]) * 1000 + DigitVal(d[2]) * 100 + DigitVal(d[3]) * 10
        + DigitVal(d[4])

MonthOf(d) == DigitVal(d[6]) * 10 + DigitVal(d[7])

\* The only rule phrase of the model: "every month".
RuleEveryMonth == <<"e", "v", "e", "r", "y", " ", "m", "o", "n", "t", "h">>

\* Recurrence.fromText: a phrase that is not a rule yields no recurrence.
IsValidRule(text) == Trim(text) = RuleEveryMonth

\* Recurrence.next: the occurrence after the reference date, one month on,
\* the day kept (the days of the model exist in every month).  Without a
\* reference date there is no computable next occurrence.
NextOccurrence(refDate) ==
    IF refDate = Null THEN Null
    ELSE LET y == YearOf(refDate)
             m == MonthOf(refDate)
             ny == IF m >= 12 THEN y + 1 ELSE y
             nm == IF m >= 12 THEN 1 ELSE m + 1
         IN  FourDigits(ny) \o <<"-">> \o TwoDigits(nm) \o <<"-">>
                 \o Slice(refDate, 9, 10)

----------------------------------------------------------------------------
(* Task (not among the source files): fromLine, toggle, toFileLineString.  *)
(* Of the fields of the body the model keeps the description, the          *)
(* recurrence rule, the due date and the done date.                        *)

Letters ==
    {"a", "b", "c", "d", "e", "f", "g", "h", "i", "j", "k", "l", "m", "n",
     "o", "p", "q", "r", "s", "t", "u", "v", "w", "x", "y", "z"}

\* The class [a-zA-Z0-9, !] of the recurrence pattern.
RuleChars == Letters \cup Digits \cup {",", " ", "!"}

\* recurrenceRegex = /<recurrence mark> ?([a-zA-Z0-9, !]+)$/ : the length of
\* the rule text at the end of l, 0 when l does not end so.
RecSuffixLen(l) ==
    LET q == CHOOSE k \in 0..Len(l) :
                 /\ \A i \in 1..k : l[Len(l) - i + 1] \in RuleChars
                 /\ k = Len(l) \/ l[Len(l) - k] \notin RuleChars
    IN  IF q > 0 /\ Len(l) - q >= 2
           /\ Slice(l, Len(l) - q - 1, Len(l) - q) = RecMark
        THEN q
        ELSE 0

RECURSIVE ParseBody(_, _)
ParseBody(text, t) ==
    LET dn == DateSuffixLen(text, <<DoneMark>>)
        du == DateSuffixLen(text, DueMark)
        rc == RecSuffixLen(text)
    IN  IF dn > 0
        THEN ParseBody(Trim(Slice(text, 1, Len(text) - dn)),
                       [t EXCEPT !.doneDate = Slice(text, Len(text) - 9, Len(text))])
        ELSE IF du > 0
        THEN ParseBody(Trim(Slice(text, 1, Len(text) - du)),
                       [t EXCEPT !.dueDate = Slice(text, Len(text) - 9, Len(text))])
        ELSE IF rc > 0 /\ IsValidRule(Slice(text, Len(text) - rc + 1, Len(text)))
                /\ t.recurrence = Null
        THEN ParseBody(Trim(Slice(text, 1, Len(text) - rc - 2)),
                       [t EXCEPT !.recurrence = RuleEveryMonth])
        ELSE [t EXCEPT !.description = text]

\* The null a line that is no Task parses to.
NullTask == [null |-> TRUE]

\* Task.fromLine: null for a line taskRegex does not match and for a line
\* whose body lacks the global filter.
fromLine(l, globalFilter, reg) ==
    IF ~taskRegexTest(l) THEN NullTask
    ELSE LET g == taskRegexMatch(l)
             body == Trim(g.body)
         IN  IF ~Includes(body, globalFilter) THEN NullTask
             ELSE ParseBody(body,
                      [indentation |-> g.indentation,
                       listMarker  |-> g.listMarker,
                       status      |-> bySymbol(reg, g.status),
                       description |-> <<>>,
                       recurrence  |-> Null,
                       dueDate     |-> Null,
                       doneDate    |-> Null])

\* DateFallback (not among the source files): the date a path names, null
\* for a path that names none; the paths are a note and a daily note.
PathPlain == <<"n", ".", "m", "d">>
PathDated ==
    <<"2", "0", "2", "4", "-", "0", "1", "-", "0", "1", ".", "m", "d">>
Paths == {PathPlain, PathDated}

DateFallbackFromPath(path) ==
    IF Len(path) >= 10 /\ IsDateText(Slice(path, 1, 10))
    THEN Slice(path, 1, 10)
    ELSE Null

\* DateFallback.canApplyFallback: none of the three dates is present.
canApplyFallback(startDate, scheduledDate, dueDate) ==
    startDate = Null /\ scheduledDate = Null /\ dueDate = Null

\* Task.fromLine with the place of the line: the Task of fromLine, its path
\* and section, its start and scheduled date (the model's grammar has
\* neither, so the scheduled date is the inferred one or null) and the line
\* itself.
fromLineIn(l, globalFilter, reg, path, sectionStart, sectionIndex, precedingHeader, fallbackDate) ==
    LET t == fromLine(l, globalFilter, reg)
    IN  IF t = NullTask THEN NullTask
        ELSE LET inferred == canApplyFallback(Null, Null, t.dueDate)
                                 /\ fallbackDate # Null
             IN  [indentation |-> t.indentation,
                  listMarker |-> t.listMarker,
                  status |-> t.status,
                  description |-> t.description,
                  recurrence |-> t.recurrence,
                  dueDate |-> t.dueDate,
                  doneDate |-> t.doneDate,
                  path |-> path,
                  sectionStart |-> sectionStart,
                  sectionIndex |-> sectionIndex,
                  precedingHeader |-> precedingHeader,
                  startDate |-> Null,
                  scheduledDate |-> IF inferred THEN fallbackDate ELSE Null,
                  scheduledDateIsInferred |-> inferred,
                  originalMarkdown |-> l]

\* Task.toFileLineString
toFileLineString(t) ==
    t.indentation \o t.listMarker \o <<" ", "[", t.status.symbol, "]", " ">>
        \o t.description
        \o (IF t.recurrence = Null THEN <<>>
            ELSE <<" ">> \o RecMark \o <<" ">> \o t.recurrence)
        \o (IF t.dueDate = Null THEN <<>>
            ELSE <<" ">> \o DueMark \o <<" ">> \o t.dueDate)
        \o (IF t.doneDate = Null THEN <<>>
            ELSE <<" ", DoneMark, " ">> \o t.doneDate)

\* Task.toggle: the records the toggle emits, the new occurrence first.
toggle(t, reg) ==
    LET newStatus == bySymbol(reg, t.status.nextStatusSymbol)
        next == IF newStatus.done /\ t.recurrence # Null
                THEN NextOccurrence(t.dueDate)
                ELSE Null
        toggled == [t EXCEPT !.status = newStatus,
                             !.doneDate = IF newStatus.done THEN Today
                                          ELSE IF t.status.done THEN Null
                                          ELSE t.doneDate]
    IN  IF next # Null
        THEN <<[t EXCEPT !.status = StatusTODO, !.dueDate = next,
                         !.doneDate = Null],
               toggled>>
        ELSE <<toggled>>

----------------------------------------------------------------------------
(* toggleLine *)

\* JoinLines that renders the first record only.
JoinLines_FirstOnly(ts) ==
    IF Len(ts) = 0 THEN <<>> ELSE toFileLineString(ts[1])

\* tasks.map(toFileLineString).join('\n')
RECURSIVE JoinLines(_)
JoinLines(ts) ==
    IF Len(ts) = 0 THEN <<>>
    ELSE IF Len(ts) = 1 THEN toFileLineString(ts[1])
    ELSE toFileLineString(ts[1]) \o <<NL>> \o JoinLines(Tail(ts))

\* toggleChecklistItem that ticks the box whatever the status was.
toggleChecklistItem_AlwaysDone(line, reg) ==
    LET g == taskRegexMatch(line)
    IN  g.indentation \o <<"-", " ", "[", "x", "]", " ">> \o g.body

\* line.replace(taskRegex, `$1- [${newStatusString}] $4`)
toggleChecklistItem(line, reg) ==
    LET g == taskRegexMatch(line)
        status == bySymbol(reg, g.status)
        newStatusString == status.nextStatusSymbol
    IN  g.indentation \o <<"-", " ", "[", newStatusString, "]", " ">> \o g.body

\* line.replace(listItemRegex, '$1$2 [ ]')
toggleListItem(line) ==
    LET k == IndentLen(line)
        m == MarkerLen(line, k)
    IN  Slice(line, 1, k + m) \o <<" ", "[", " ", "]">>
            \o Slice(line, k + m + 1, Len(line))

\* line.replace(indentationRegex, '$1- ')
togglePlainText(line) ==
    LET k == IndentLen(line)
    IN  Slice(line, 1, k) \o <<"-", " ">> \o Slice(line, k + 1, Len(line))

\* toggleLine with the list-item test ahead of the checklist test.
toggleLineResult_ListItemFirst(line, globalFilter, reg) ==
    LET task == fromLine(line, globalFilter, reg)
    IN  IF task # NullTask
        THEN [branch |-> "task", text |-> JoinLines(toggle(task, reg))]
        ELSE IF listItemRegexTest(line)
        THEN [branch |-> "listItem", text |-> toggleListItem(line)]
        ELSE IF taskRegexTest(line)
        THEN [branch |-> "checklist", text |-> toggleChecklistItem(line, reg)]
        ELSE [branch |-> "plainText", text |-> togglePlainText(line)]

\* The body of toggleLine: the branch that handles the line and the text it
\* returns.
toggleLineResult(line, globalFilter, reg) ==
    LET task == fromLine(line, globalFilter, reg)
    IN  IF task # NullTask
        THEN [branch |-> "task", text |-> JoinLines(toggle(task, reg))]
        ELSE IF taskRegexTest(line)
        THEN [branch |-> "checklist", text |-> toggleChecklistItem(line, reg)]
        ELSE IF listItemRegexTest(line)
        THEN [branch |-> "listItem", text |-> toggleListItem(line)]
        ELSE [branch |-> "plainText", text |-> togglePlainText(line)]

toggleLine(line, globalFilter, reg) ==
    toggleLineResult(line, globalFilter, reg).text

----------------------------------------------------------------------------
(* calculateCursorOffset *)

\* ' <done mark> YYYY-MM-DD'.length
doneDateLength == 13

\* toggledLine.search('.+\n.+') !== -1 : a line break with a character
\* other than a line break on either side.
HasLineBreakBetweenText(l) ==
    \E i \in 2..(Len(l) - 1) : l[i] = NL /\ l[i - 1] # NL /\ l[i + 1] # NL

\* firstListItemChar that returns the index after the first - or *.
firstListItemChar_After(l) ==
    IF \E i \in 1..Len(l) : l[i] \in {"-", "*"}
    THEN CHOOSE i \in 1..Len(l) :
             /\ l[i] \in {"-", "*"}
             /\ \A j \in 1..(i - 1) : l[j] \notin {"-", "*"}
    ELSE -1

\* toggledLine.search(/[-*]/) : the 0-based index of the first - or *,
\* -1 when there is none.
firstListItemChar(l) ==
    IF \E i \in 1..Len(l) : l[i] \in {"-", "*"}
    THEN (CHOOSE i \in 1..Len(l) :
              /\ l[i] \in {"-", "*"}
              /\ \A j \in 1..(i - 1) : l[j] \notin {"-", "*"}) - 1
    ELSE -1

\* compensatedLen without the test that the line grew by the length of the
\* done date.
compensatedLen_NoGrowthTest(line, toggledLine) ==
    IF doneDateRegexTest(toggledLine)
    THEN Len(toggledLine) - doneDateLength
    ELSE Len(toggledLine)

\* compensatedLen without the special case for the appended done date.
compensatedLen_NoDoneDate(line, toggledLine) == Len(toggledLine)

\* newLineLen after the special case for the appended done date.
compensatedLen(line, toggledLine) ==
    IF doneDateRegexTest(toggledLine)
       /\ Len(toggledLine) - Len(line) >= doneDateLength
    THEN Len(toggledLine) - doneDateLength
    ELSE Len(toggledLine)

\* isRecurrenceSplit that asks for more than twice the old length.
isRecurrenceSplit_StrictlyLonger(line, toggledLine) ==
    /\ compensatedLen(line, toggledLine) > 2 * Len(line)
    /\ HasLineBreakBetweenText(toggledLine)

\* The branch for a recurring task: the entire line plus a line break
\* prepended.
isRecurrenceSplit(line, toggledLine) ==
    /\ compensatedLen(line, toggledLine) >= 2 * Len(line)
    /\ HasLineBreakBetweenText(toggledLine)

\* cappedAtEnd without the cap.
cappedAtEnd_NoCap(origCursorCh, toggledLine) == origCursorCh

\* The line got shorter or stayed the same length: the original position,
\* capped at the end of the line.
cappedAtEnd(origCursorCh, toggledLine) ==
    IF origCursorCh >= Len(toggledLine) THEN Len(toggledLine)
    ELSE origCursorCh

calculateCursorOffset(origCursorCh, line, toggledLine) ==
    IF Len(toggledLine) <= Len(line)
    THEN cappedAtEnd(origCursorCh, toggledLine)
    ELSE LET newLineLen == compensatedLen(line, toggledLine)
         IN  IF isRecurrenceSplit(line, toggledLine)
             THEN origCursorCh + newLineLen - Len(line)
             ELSE IF origCursorCh < firstListItemChar(toggledLine)
             THEN origCursorCh
             ELSE origCursorCh + newLineLen - Len(line)

----------------------------------------------------------------------------
(* The lines the editor starts with. *)

GlobalFilterTag == <<"#">>

DateJan1 == <<"2", "0", "2", "4", "-", "0", "1", "-", "0", "1">>
DateDec1 == <<"2", "0", "2", "3", "-", "1", "2", "-", "0", "1">>

Indents == {<<>>, <<" ", " ">>, <<">", " ">>}
Markers == {<<"-">>, <<"*">>, <<"1", ".">>}
StatusSymbols == {" ", "x", "/", "?"}

PlainBodies == {<<>>, <<"a", "-", "b">>, <<"1", "a">>}

ItemBodies == {<<>>, <<" ", "a">>}

\* Bodies that carry the global filter, with a due date, a recurrence rule
\* or a done date.
TaskBodies ==
    {<<"#", " ">> \o DueMark \o <<" ">> \o DateJan1,
     <<"#", " ">> \o RecMark \o <<" ">> \o RuleEveryMonth
         \o <<" ">> \o DueMark \o <<" ">> \o DateDec1,
     <<"#", " ">> \o RecMark \o <<" ">> \o RuleEveryMonth,
     <<"#", " ", DoneMark, " ">> \o DateJan1}

PlainLines == {i \o b : i \in Indents, b \in PlainBodies}

ListItemLines ==
    {i \o m \o b : i \in {<<>>, <<" ", " ">>}, m \in Markers, b \in ItemBodies}

Box(sym) == <<"[", sym, "]">>

\* Checklist items as toFileLineString spaces them.
BoxLines ==
    {i \o m \o <<" ">> \o Box(sym) \o <<" ", "a">> :
        i \in {<<>>, <<" ", " ">>}, m \in Markers, sym \in StatusSymbols}

\* Tasks as toFileLineString spaces them.
TaskLines ==
    {<<"-", " ">> \o Box(sym) \o <<" ">> \o b :
        sym \in {" ", "/", "x"}, b \in TaskBodies}
    \cup
    {<<"1", ".", " ">> \o Box(" ") \o <<" ">> \o b : b \in TaskBodies}

\* Checklist items spaced otherwise.
LooseBoxLines ==
    {m \o sp1 \o Box(" ") \o sp2 \o <<"a">> :
        m \in {<<"-">>, <<"*">>},
        sp1 \in {<<" ">>, <<" ", " ">>},
        sp2 \in {<<>>, <<" ", " ">>}}

InputLines ==
    PlainLines \cup ListItemLines \cup BoxLines \cup TaskLines
        \cup LooseBoxLines

\* A second line of the document, which no command of the model rewrites
\* unless the cursor is on it.
OtherLine == <<"-", " ", "b">>

----------------------------------------------------------------------------
(* The editor, the settings and the toggle-done command. *)

VARIABLES
    doc,            \* the editor's lines
    cursor,         \* the editor's cursor: [line, ch], both 0-based
    registry,       \* StatusRegistry.getInstance()
    globalFilter,   \* the global filter of the settings
    last,           \* what the last toggleDone call did
    fnIn,           \* arguments of a direct call of calculateCursorOffset
    fnOut,          \* its result, <<>> before the call
    querySource,    \* the query of the oneHotResolveQueryToTasks call
    promise,        \* the promise the call returned
    callbacks,      \* how often the cache has invoked the callback
    applied,        \* the applyQueryToTasks calls made, in order
    lastCallback,   \* the arguments of the last callback invocation
    extTask,        \* the Task of a conversion to TaskExternal and back
    extResult       \* <<the Task converted back>>, <<>> before the call

edVars == <<doc, cursor, registry, globalFilter, last>>
fnVars == <<fnIn, fnOut>>
qVars == <<querySource, promise, callbacks, applied, lastCallback>>
xVars == <<extTask, extResult>>
vars ==
    <<doc, cursor, registry, globalFilter, last, fnIn, fnOut, querySource,
      promise, callbacks, applied, lastCallback, extTask, extResult>>

NoCall ==
    [kind |-> "none", ret |-> "undefined", lineNumber |-> 0, line |-> <<>>,
     ch |-> 0, toggledLine |-> <<>>, newCh |-> 0, branch |-> "none",
     lineBefore |-> <<"none">>, docBefore |-> <<>>,
     checking |-> FALSE, viewIsMarkdown |-> FALSE, pathDefined |-> FALSE,
     calls |-> <<>>]

\* text.split('\n')
RECURSIVE SplitLines(_)
SplitLines(text) ==
    IF \E i \in 1..Len(text) : text[i] = NL
    THEN LET p == CHOOSE i \in 1..Len(text) :
                      text[i] = NL /\ \A j \in 1..(i - 1) : text[j] # NL
         IN  <<Slice(text, 1, p - 1)>> \o SplitLines(Slice(text, p + 1, Len(text)))
    ELSE <<text>>

\* editor.setLine(n, text): line n (0-based) is replaced by the lines of
\* text.
setLine(d, n, text) ==
    Slice(d, 1, n) \o SplitLines(text) \o Slice(d, n + 2, Len(d))

\* editor.setCursor({line, ch}): a ch offset bigger than the line length
\* continues to the next line(s); past the end of the last line it stops at
\* the end.
RECURSIVE setCursor(_, _, _)
setCursor(d, n, ch) ==
    IF ch <= Len(d[n + 1]) THEN [line |-> n, ch |-> ch]
    ELSE IF n + 1 < Len(d) THEN setCursor(d, n + 1, ch - Len(d[n + 1]) - 1)
    ELSE [line |-> n, ch |-> Len(d[n + 1])]

FnIdle == [origCursorCh |-> 0, line |-> <<>>, toggledLine |-> <<>>]

\* No call of oneHotResolveQueryToTasks has been made.
NoPromise == [state |-> "none", value |-> <<>>]

QueryIdle ==
    /\ querySource = <<>>
    /\ promise = NoPromise
    /\ callbacks = 0
    /\ applied = <<>>
    /\ lastCallback = [tasks |-> <<>>, state |-> "none"]

\* No conversion to TaskExternal and back has been made.
ExternalIdle ==
    /\ extTask = NullTask
    /\ extResult = <<>>

EditorIdle ==
    /\ doc = <<<<>>>>
    /\ cursor = [line |-> 0, ch |-> 0]
    /\ registry = TwoStatusRegistry
    /\ globalFilter = <<>>
    /\ last = NoCall

Init ==
    /\ \/ \E l \in InputLines : doc = <<l>>
       \/ \E l \in PlainLines : doc = <<OtherLine, l>>
    /\ \E n \in 0..(Len(doc) - 1) : \E c \in 0..Len(doc[n + 1]) :
           cursor = [line |-> n, ch |-> c]
    /\ registry \in Registries
    /\ globalFilter \in {<<>>, GlobalFilterTag}
    /\ last = NoCall
    /\ fnIn = FnIdle
    /\ fnOut = <<>>
    /\ QueryIdle
    /\ ExternalIdle

\* toggleDone(checking = true, editor, view): the path of the view's file
\* is not read.
ToggleDoneChecking(viewIsMarkdown, pathDefined) ==
    /\ last' = [NoCall EXCEPT !.kind = "checking", !.ret = viewIsMarkdown,
                              !.checking = TRUE,
                              !.viewIsMarkdown = viewIsMarkdown,
                              !.pathDefined = pathDefined]
    /\ UNCHANGED <<doc, cursor, registry, globalFilter, fnVars, qVars, xVars>>

\* ToggleDoneNoEditor that resets the cursor to the start of its line.
ToggleDoneNoEditor_MovesCursor(viewIsMarkdown, pathDefined) ==
    /\ ~viewIsMarkdown \/ ~pathDefined
    /\ last' = [NoCall EXCEPT !.kind = "returned",
                              !.viewIsMarkdown = viewIsMarkdown,
                              !.pathDefined = pathDefined]
    /\ cursor' = [cursor EXCEPT !.ch = 0]
    /\ UNCHANGED <<doc, registry, globalFilter, fnVars, qVars, xVars>>

\* toggleDone(checking = false, editor, view) for a view that is no
\* MarkdownView or whose file has no path: returns at once.
ToggleDoneNoEditor(viewIsMarkdown, pathDefined) ==
    /\ ~viewIsMarkdown \/ ~pathDefined
    /\ last' = [NoCall EXCEPT !.kind = "returned",
                              !.viewIsMarkdown = viewIsMarkdown,
                              !.pathDefined = pathDefined]
    /\ UNCHANGED <<doc, cursor, registry, globalFilter, fnVars, qVars, xVars>>

\* toggleDone(checking = false, editor, view) in a markdown view of a file.
\* The constants of the code are bound as values, each computed once.
ToggleDoneEdit ==
    \E origCursorPos \in {cursor} :
    \E lineNumber \in {origCursorPos.line} :
    \E line \in {doc[lineNumber + 1]} :
    \E toggled \in {toggleLineResult(line, globalFilter, registry)} :
    \E toggledLine \in {toggled.text} :
    \E newDoc \in {setLine(doc, lineNumber, toggledLine)} :
    \E newCh \in {calculateCursorOffset(origCursorPos.ch, line, toggledLine)} :
        /\ Len(newDoc) <= MaxDocLines
        /\ doc' = newDoc
        /\ cursor' = setCursor(newDoc, lineNumber, newCh)
        /\ last' = [kind |-> "edit", ret |-> "undefined",
                    lineNumber |-> lineNumber, line |-> line,
                    ch |-> origCursorPos.ch, toggledLine |-> toggledLine,
                    newCh |-> newCh,
                    branch |-> toggled.branch,
                    lineBefore |->
                        IF /\ last.kind = "edit"
                           /\ last.lineNumber = lineNumber
                           /\ last.toggledLine = line
                        THEN last.line
                        ELSE <<"none">>,
                    docBefore |-> doc,
                    checking |-> FALSE, viewIsMarkdown |-> TRUE,
                    pathDefined |-> TRUE,
                    calls |-> <<"setLine", "setCursor">>]
        /\ UNCHANGED <<registry, globalFilter, fnVars, qVars, xVars>>

Next ==
    \/ \E m \in BOOLEAN, p \in BOOLEAN : ToggleDoneChecking(m, p)
    \/ \E m \in BOOLEAN, p \in BOOLEAN : ToggleDoneNoEditor(m, p)
    \/ ToggleDoneEdit

Spec == Init /\ [][Next]_vars

----------------------------------------------------------------------------
(* calculateCursorOffset called on its own: the arguments are drawn from    *)
(* every pair of short strings over a small alphabet, with and without a   *)
(* done date at the end, and from every line of the editor with the line   *)
(* toggleLine makes of it; the offset may lie past the end of the old line. *)

Alphabet == {" ", "-", "a", NL}

SmallStrings == UNION {[1..n -> Alphabet] : n \in 0..MaxLen}

DoneAnnotation(date) == <<" ", DoneMark, " ">> \o date

DoneDateStrings ==
    {s \o DoneAnnotation(DateJan1) : s \in {<<>>, <<"-">>, <<"a">>, <<NL>>}}

FnStrings == SmallStrings \cup DoneDateStrings

\* Lines of a recurring task and the two-line texts a toggle to done makes
\* of them: a new-occurrence line, shorter than, as long as or longer than
\* the old line, a line break, and the old line completed and annotated.
SplitOldLines ==
    {i \o <<"-", " ">> \o Box(" ") \o <<" ", "a", "b", "c">> :
        i \in {<<>>, <<" ", " ">>}}

NewOccurrenceLines(l) ==
    {Slice(l, 1, Len(l) - 3) \o d :
        d \in {<<>>, <<"a">>, <<"a", "b">>, <<"a", "b", "c">>,
               <<"a", "b", "c", "d">>}}

CompletedLine(l) ==
    [l EXCEPT ![TaskBoxAt(l).b + 2] = "x"] \o DoneAnnotation(Today)

SplitPairs ==
    {<<l, n \o <<NL>> \o CompletedLine(l)>> :
        l \in SplitOldLines,
        n \in UNION {NewOccurrenceLines(o) : o \in SplitOldLines}}

FnPairs ==
    (FnStrings \X FnStrings)
    \cup {<<l, toggleLine(l, f, r)>> :
             l \in InputLines, f \in {<<>>, GlobalFilterTag}, r \in Registries}
    \cup SplitPairs

InitOffset ==
    /\ \E p \in FnPairs : \E c \in 0..(Len(p[1]) + MaxOver) :
           fnIn = [origCursorCh |-> c, line |-> p[1], toggledLine |-> p[2]]
    /\ fnOut = <<>>
    /\ EditorIdle
    /\ QueryIdle
    /\ ExternalIdle

CallCalculateCursorOffset ==
    /\ fnOut = <<>>
    /\ fnOut' = <<calculateCursorOffset(fnIn.origCursorCh, fnIn.line,
                                        fnIn.toggledLine)>>
    /\ UNCHANGED <<fnIn, edVars, qVars, xVars>>

NextOffset == CallCalculateCursorOffset

SpecOffset == InitOffset /\ [][NextOffset]_vars

----------------------------------------------------------------------------
(* Claims about calculateCursorOffset as a function. *)

FnCalled == fnOut # <<>>

\* C2, as stated: for every old line, every new line and every original
\* offset >= 0 the returned offset r satisfies 0 <= r <= length(newLine).
C2_AnyOffsetBounded ==
    FnCalled => 0 <= fnOut[1] /\ fnOut[1] <= Len(fnIn.toggledLine)

\* C2, amended: for every old line, every new line and every original
\* offset within the old line (0 <= offset <= length(oldLine)) the returned
\* offset r satisfies 0 <= r <= length(newLine).
C2_OffsetBounded ==
    FnCalled /\ fnIn.origCursorCh <= Len(fnIn.line)
        => 0 <= fnOut[1] /\ fnOut[1] <= Len(fnIn.toggledLine)

\* C2 witness: the line grew, the offset was at the end of the old line and
\* the returned offset is the end of the new line.
C2_Witness ==
    /\ FnCalled
    /\ Len(fnIn.toggledLine) > Len(fnIn.line)
    /\ fnIn.origCursorCh = Len(fnIn.line)
    /\ fnIn.origCursorCh > 0
    /\ fnOut[1] = Len(fnIn.toggledLine)

\* C3: when the new line is no longer than the old line the returned offset
\* is min(originalOffset, length(newLine)).
C3_ShrinkClamps ==
    FnCalled /\ Len(fnIn.toggledLine) <= Len(fnIn.line)
        => /\ fnOut[1] = Min(fnIn.origCursorCh, Len(fnIn.toggledLine))
           /\ fnOut[1] <= Len(fnIn.toggledLine)

\* C3 witness: the line shrank and the offset, past the new end, was moved
\* to the new end.
C3_Witness ==
    /\ FnCalled
    /\ Len(fnIn.toggledLine) < Len(fnIn.line)
    /\ fnIn.origCursorCh > Len(fnIn.toggledLine)
    /\ fnOut[1] = Len(fnIn.toggledLine)

----------------------------------------------------------------------------
(* Claims about the toggle-done command.  last holds the line the command  *)
(* read (line, ch), the text it wrote (toggledLine), the offset it set      *)
(* (newCh) and the branch of toggleLine that produced the text.             *)

Edited == last.kind = "edit"

ReplaceAt(l, i, c) == [l EXCEPT ![i] = c]

InsertAt(l, k, ins) == Slice(l, 1, k) \o ins \o Slice(l, k + 1, Len(l))

\* The position of the status symbol of a line taskRegex matches.
SymbolPos(l) == TaskBoxAt(l).b + 2

\* The number of line breaks of a text.
LineBreaks(text) == Cardinality({i \in 1..Len(text) : text[i] = NL})

HasDoneDate(l) == DateSuffixLen(l, <<DoneMark>>) > 0

\* C1, as stated: for a line that is no Task, toggleLine changes only the
\* designated part: the status symbol of a checklist item is replaced by the
\* nextStatusSymbol of its status and indentation, list marker and body
\* stay; a list item gains an empty status box after its marker; plain text
\* gains a list marker after its indentation.
C1_OnlyDesignatedPartChanges ==
    Edited =>
        /\ last.branch = "checklist" =>
               last.toggledLine =
                   ReplaceAt(last.line, SymbolPos(last.line),
                       bySymbol(registry,
                           last.line[SymbolPos(last.line)]).nextStatusSymbol)
        /\ last.branch = "listItem" =>
               \A k \in {IndentLen(last.line)} :
                   last.toggledLine =
                       InsertAt(last.line, k + MarkerLen(last.line, k),
                                <<" ", "[", " ", "]">>)
        /\ last.branch = "plainText" =>
               last.toggledLine =
                   InsertAt(last.line, IndentLen(last.line), <<"-", " ">>)

\* The Task a line of the last edit parses to.
TaskOf(l) == fromLine(l, globalFilter, registry)

\* The next occurrence first, the completed original second, one line break
\* between them and nothing else.
IsRecurrenceSplitOf(t, text) ==
    /\ LineBreaks(text) = 1
    /\ \A ls \in {SplitLines(text)} :
           /\ Len(ls) = 2
           /\ \A new \in {TaskOf(ls[1])}, old \in {TaskOf(ls[2])} :
                  /\ new # NullTask
                  /\ old # NullTask
                  /\ ~new.status.done
                  /\ new.doneDate = Null
                  /\ new.dueDate = NextOccurrence(t.dueDate)
                  /\ new.recurrence = t.recurrence
                  /\ old.status.done
                  /\ old.doneDate = Today
                  /\ old.dueDate = t.dueDate
                  /\ old.recurrence = t.recurrence

ToggledToDone(t) ==
    ~t.status.done /\ bySymbol(registry, t.status.nextStatusSymbol).done

C5_PlainTextGainsMarker ==
    Edited /\ last.branch = "plainText" =>
        \A k \in {IndentLen(last.line)} :
            /\ last.toggledLine
                   = Slice(last.line, 1, k) \o <<"-", " ">>
                         \o Slice(last.line, k + 1, Len(last.line))
            /\ last.newCh = IF last.ch < k THEN last.ch ELSE last.ch + 2

\* C5 witness: an indented plain-text line was toggled with the cursor at
\* the end of the indentation.
C5_Witness ==
    /\ Edited
    /\ last.branch = "plainText"
    /\ IndentLen(last.line) = 2
    /\ last.ch = 2
    /\ last.newCh = 4

\* The edit toggled, for the second time in a row, a line with a status box
\* that is no recurring task.
SecondToggle ==
    /\ Edited
    /\ last.lineBefore # <<"none">>
    /\ taskRegexTest(last.lineBefore)
    /\ \A t \in {TaskOf(last.lineBefore)} :
           t = NullTask \/ t.recurrence = Null

StatusRestored ==
    /\ taskRegexTest(last.toggledLine)
    /\ last.toggledLine[SymbolPos(last.toggledLine)]
           = last.lineBefore[SymbolPos(last.lineBefore)]
    /\ ~HasDoneDate(last.lineBefore) /\ HasDoneDate(last.line)
           => ~HasDoneDate(last.toggledLine)

\* C7, as stated: toggling a non-recurring task line twice returns it to its
\* original status symbol and leaves no done date the first toggle added,
\* for every status configuration.
C7_DoubleToggleAnyRegistry == SecondToggle => StatusRestored

\* C7, amended: toggling a non-recurring task line twice returns it to its
\* original status symbol and leaves no done date the first toggle added
\* when the registry holds the two-status to-do/done cycle and the line's
\* status symbol is registered.
C7_DoubleToggleTwoStatus ==
    /\ SecondToggle
    /\ registry = TwoStatusRegistry
    /\ IsRegistered(registry, last.lineBefore[SymbolPos(last.lineBefore)])
    => StatusRestored

\* C7 witness: a to-do task got a done date by the first toggle and lost it
\* by the second.
C7_Witness ==
    /\ SecondToggle
    /\ registry = TwoStatusRegistry
    /\ last.lineBefore[SymbolPos(last.lineBefore)] = " "
    /\ ~HasDoneDate(last.lineBefore)
    /\ HasDoneDate(last.line)
    /\ StatusRestored

\* C8: toggleLine handles every line by exactly one branch, the first in
\* the order Task, checklist item, list item, plain text that accepts it;
\* the plain-text branch accepts every remaining line, the empty line too,
\* and returns a text; an unregistered symbol of a checklist item is
\* toggled as the default status.
C8_OneBranchInOrder ==
    Edited =>
        \A isTask \in {TaskOf(last.line) # NullTask},
           isBox \in {taskRegexTest(last.line)},
           isItem \in {listItemRegexTest(last.line)} :
            /\ last.branch \in {"task", "checklist", "listItem", "plainText"}
            /\ last.branch = "task" <=> isTask
            /\ last.branch = "checklist" <=> ~isTask /\ isBox
            /\ last.branch = "listItem" <=> ~isTask /\ ~isBox /\ isItem
            /\ last.branch = "plainText" <=> ~isTask /\ ~isBox /\ ~isItem
            /\ DOMAIN last.toggledLine = 1..Len(last.toggledLine)
            /\ last.branch = "listItem" =>
                   taskRegexTest(last.toggledLine)
            /\ last.branch = "plainText" =>
                   /\ listItemRegexTest(last.toggledLine)
                   /\ Len(last.toggledLine) = Len(last.line) + 2
            /\ last.branch = "checklist"
                   /\ ~IsRegistered(registry, last.line[SymbolPos(last.line)])
                   => last.toggledLine[SymbolPos(last.toggledLine)]
                          = StatusTODO.nextStatusSymbol

\* C8 witness: the empty line was toggled by the plain-text branch.
C8_Witness ==
    /\ Edited
    /\ last.line = <<>>
    /\ last.branch = "plainText"
    /\ last.toggledLine = <<"-", " ">>

\* C9, as stated: when the new line is longer and the change is no
\* whole-line duplication, the offset is returned unchanged if it was within
\* the leading indentation (before the list marker of the new line, be it
\* -, * or numbered) and moved right by the length delta left after the
\* done-date compensation otherwise.
C9_IndentationKeepsOffset ==
    /\ Edited
    /\ Len(last.toggledLine) > Len(last.line)
    /\ ~isRecurrenceSplit(last.line, last.toggledLine)
    => \A marker \in {IndentLen(last.toggledLine)} :
           last.newCh =
               IF last.ch < marker THEN last.ch
               ELSE last.ch + compensatedLen(last.line, last.toggledLine)
                        - Len(last.line)

\* The toggle replaced the status symbol and appended the done annotation,
\* nothing else.
OnlyDoneAppended ==
    /\ Edited
    /\ last.branch = "task"
    /\ Len(last.toggledLine) = Len(last.line) + doneDateLength
    /\ \A p \in {SymbolPos(last.line)} :
           /\ last.toggledLine[p] # last.line[p]
           /\ Slice(last.toggledLine, 1, Len(last.line))
                  = ReplaceAt(last.line, p, last.toggledLine[p])
    /\ Slice(last.toggledLine, Len(last.line) + 1, Len(last.toggledLine))
           = DoneAnnotation(Today)

\* C10: when toggling a task to done only replaces the status symbol and
\* appends the done annotation, the offset is returned unchanged, for every
\* original offset from 0 to the length of the old line.
C10_DoneAppendKeepsOffset == OnlyDoneAppended => last.newCh = last.ch

\* C10 witness: the done annotation was appended with the cursor at the end
\* of the old line.
C10_Witness ==
    /\ OnlyDoneAppended
    /\ last.ch = Len(last.line)
    /\ last.newCh = last.ch

\* calculateCursorOffset was called with a recurrence split: the new text is
\* one line, a line break, and the old line with its status symbol replaced
\* and the done annotation appended; the offset lies within the old line.
FnSplit ==
    /\ FnCalled
    /\ taskRegexTest(fnIn.line)
    /\ LineBreaks(fnIn.toggledLine) = 1
    /\ fnIn.origCursorCh <= Len(fnIn.line)
    /\ \A ls \in {SplitLines(fnIn.toggledLine)} :
           /\ Len(ls[2]) = Len(fnIn.line) + doneDateLength
           /\ doneDateRegexTest(ls[2])
           /\ Slice(ls[2], 1, Len(fnIn.line))
                  = ReplaceAt(fnIn.line, SymbolPos(fnIn.line),
                              ls[2][SymbolPos(fnIn.line)])

\* The offset, read as an index into the two-line text, is the column the
\* cursor had in the old line, on the second line.
OnSecondLineSameColumn ==
    fnOut[1] = Len(SplitLines(fnIn.toggledLine)[1]) + 1 + fnIn.origCursorCh

\* C11, as stated: in the recurrence-split case the returned offset points
\* into the completed original (second) line at the column the cursor had
\* in the old line, for every offset from 0 to length(oldLine) and every
\* length of the new-occurrence line.
C11_SplitAnyLength == FnSplit => OnSecondLineSameColumn

\* C11, amended: in the recurrence-split case the returned offset points
\* into the completed original (second) line at the column the cursor had
\* in the old line, for every offset from 0 to length(oldLine), when the
\* new-occurrence line with its line break is at least as long as the old
\* line (length(newOccurrence) + 1 >= length(oldLine)).
C11_SplitKeepsColumn ==
    FnSplit /\ Len(SplitLines(fnIn.toggledLine)[1]) + 1 >= Len(fnIn.line)
        => OnSecondLineSameColumn

\* C11 witness: the old line is indented, the new-occurrence line is one
\* shorter, the cursor was in the indentation and is in the indentation of
\* the second line.
C11_Witness ==
    /\ FnSplit
    /\ IndentLen(fnIn.line) = 2
    /\ fnIn.origCursorCh = 1
    /\ Len(SplitLines(fnIn.toggledLine)[1]) + 1 = Len(fnIn.line)
    /\ OnSecondLineSameColumn

\* A step of toggleDone: the editor is written only by a call with checking
\* false, a markdown view and a defined path; such a call replaces the line
\* the cursor was on by the lines of toggleLine's text, leaves every other
\* line as it was, and sets the cursor with the same line number and the
\* offset of calculateCursorOffset for the old and the new line.
ToggleDoneStep ==
    /\ last'.calls # <<>>
           <=> /\ ~last'.checking
               /\ last'.viewIsMarkdown
               /\ last'.pathDefined
    /\ last'.calls = <<>> => doc' = doc /\ cursor' = cursor
    /\ last'.calls # <<>> =>
           \A n \in {cursor.line} : \A line \in {doc[n + 1]} :
           \A toggledLine \in {toggleLine(line, globalFilter, registry)} :
           \A rest \in {Len(doc) - n - 1} :
               /\ last'.calls = <<"setLine", "setCursor">>
               /\ last'.lineNumber = n
               /\ last'.toggledLine = toggledLine
               /\ Slice(doc', 1, n) = Slice(doc, 1, n)
               /\ Slice(doc', n + 1, Len(doc') - rest)
                      = SplitLines(toggledLine)
               /\ Slice(doc', Len(doc') - rest + 1, Len(doc'))
                      = Slice(doc, n + 2, Len(doc))
               /\ last'.newCh
                      = calculateCursorOffset(cursor.ch, line, toggledLine)
               /\ cursor' = setCursor(doc', n, last'.newCh)

\* C12: toggleDone writes the editor only when checking is false, the view
\* is a markdown view and the path of its file is defined, and calls neither
\* setLine nor setCursor in every other case; when it writes, it rewrites
\* only the line the cursor was on and sets the cursor on the same line
\* number with the offset calculateCursorOffset gives for the old and the
\* new line.
C12_OnlyCursorLineRewritten == [][ToggleDoneStep]_vars

\* C12 witness: the cursor was on the second line of a document of two; the
\* second line was rewritten, the first line stayed and the cursor was set
\* on the second line.
C12_Witness ==
    /\ Edited
    /\ last.calls = <<"setLine", "setCursor">>
    /\ Len(last.docBefore) = 2
    /\ last.lineNumber = 1
    /\ doc[1] = last.docBefore[1]
    /\ doc[2] # last.docBefore[2]
    /\ cursor.line = 1
    /\ cursor.ch = last.newCh

----------------------------------------------------------------------------
(* The plugin's read interface: oneHotResolveQueryToTasks.                 *)

\* The cache invokes the callback of one call at most this often.
MaxCallbacks == 2

\* The cache holds at most this many tasks.
MaxTasks == 3

\* State of the cache (the enumeration is not among the source files).
CacheStates == {"Cold", "Initializing", "Warm"}

\* Query (not among the source files).  A source is a sequence of
\* instruction lines; a line that is no instruction sets the error, which
\* carries the offending line.
FilterInstructions == {"done", "not done"}
GroupInstructions == {"group by status"}

QuerySources ==
    {<<>>, <<"done">>, <<"not done">>, <<"group by status">>,
     <<"not done", "group by status">>, <<"bogus">>, <<"not done", "bogus">>,
     <<"bogus", "group by status">>}

SelectSeq2(sq, S) == SelectSeq(sq, LAMBDA x : x \in S)

Query(source) ==
    LET bad == SelectSeq(source,
                   LAMBDA x : x \notin FilterInstructions \cup GroupInstructions)
    IN  [source  |-> source,
         filters |-> SelectSeq2(source, FilterInstructions),
         groupBy |-> SelectSeq2(source, GroupInstructions),
         error   |-> IF Len(bad) = 0 THEN "undefined" ELSE bad[1]]

PassesFilter(task, f) ==
    IF f = "done" THEN task.status.done ELSE ~task.status.done

\* The group keys of the tasks that pass, in the order of first appearance.
RECURSIVE GroupKeys(_)
GroupKeys(tasks) ==
    IF Len(tasks) = 0 THEN <<>>
    ELSE LET rest == GroupKeys(Tail(tasks))
             key == Head(tasks).status.symbol
         IN  <<key>> \o SelectSeq(rest, LAMBDA k : k # key)

\* Query.applyQueryToTasks: the tasks that pass every filter, in one group
\* or, grouped by status, one group per status.
applyQueryToTasks(query, tasks) ==
    LET passing == SelectSeq(tasks,
                       LAMBDA t : \A i \in 1..Len(query.filters) :
                                      PassesFilter(t, query.filters[i]))
        keys == GroupKeys(passing)
    IN  IF Len(query.groupBy) = 0
        THEN [groups |-> <<[name |-> "", tasks |-> passing]>>]
        ELSE [groups |->
                 [g \in 1..Len(keys) |->
                     [name  |-> keys[g],
                      tasks |-> SelectSeq(passing,
                                   LAMBDA t : t.status.symbol = keys[g])]]]

\* new TaskUID(path, sectionIndex, taskIndex)
TaskUID(path, sectionIndex, taskIndex) ==
    [path |-> path, sectionIndex |-> sectionIndex, taskIndex |-> taskIndex]

\* TaskUID.fromTask
TaskUIDfromTask(task) ==
    TaskUID(task.path, task.sectionStart, task.sectionIndex)

\* new TaskExternal(task), with the fields of Task the model keeps.
TaskExternal(task) ==
    [isDone           |-> task.status = StatusDONE,
     originalMarkdown |-> task.originalMarkdown,
     startDate        |-> task.startDate,
     scheduledDate    |-> task.scheduledDate,
     dueDate          |-> task.dueDate,
     doneDate         |-> task.doneDate,
     description      |-> task.description,
     recurrenceRule   |-> task.recurrence,
     uid              |-> TaskUIDfromTask(task)]

\* taskGroups.groups.forEach(group => tasksExternal =
\*     tasksExternal.concat(group.tasks.map(task => new TaskExternal(task))))
RECURSIVE FlattenGroups(_)
FlattenGroups(groups) ==
    IF Len(groups) = 0 THEN <<>>
    ELSE [i \in 1..Len(groups[1].tasks) |-> TaskExternal(groups[1].tasks[i])]
             \o FlattenGroups(Tail(groups))

\* The tasks the cache may hold.
CacheTaskLines ==
    {<<"-", " ", "[", " ", "]", " ", "a">>,
     <<"-", " ", "[", "x", "]", " ", "b">>,
     <<"-", " ", "[", " ", "]", " ", "c", " ">> \o DueMark \o <<" ">> \o DateJan1}

CacheTasks ==
    {fromLineIn(l, <<>>, TwoStatusRegistry, PathPlain, 0, 0, Null, Null) :
        l \in CacheTaskLines}

CacheTaskLists ==
    {ts \in UNION {[1..n -> CacheTasks] : n \in 0..MaxTasks} :
        \A i, j \in 1..Len(ts) : i # j => ts[i] # ts[j]}

\* Settle whose every call sets the outcome anew.
Settle_LastCallWins(p, state, value) == [state |-> state, value |-> value]

\* resolve and reject of a promise: the first call settles it, later calls
\* do nothing.
Settle(p, state, value) ==
    IF p.state = "pending" THEN [state |-> state, value |-> value] ELSE p

InitQuery ==
    /\ EditorIdle
    /\ fnIn = FnIdle
    /\ fnOut = <<>>
    /\ QueryIdle
    /\ ExternalIdle

\* oneHotResolveQueryToTasks(query): creates the promise and triggers the
\* request for a cache update with the callback.
OneHotResolveQueryToTasks(query) ==
    /\ promise.state = "none"
    /\ querySource' = query
    /\ promise' = [state |-> "pending", value |-> <<>>]
    /\ UNCHANGED <<callbacks, applied, lastCallback, edVars, fnVars, xVars>>

\* The callback ({ tasks, state }) => ... of the request, invoked by the
\* cache.
CacheUpdateCallback(tasks, state) ==
    /\ promise.state # "none"
    /\ callbacks < MaxCallbacks
    /\ \E myQuery \in {Query(querySource)} :
       \E p1 \in {IF myQuery.error # "undefined"
                  THEN Settle(promise, "rejected", myQuery.error)
                  ELSE promise} :
       \E tasksExternal \in
              {IF state = "Warm"
               THEN FlattenGroups(applyQueryToTasks(myQuery, tasks).groups)
               ELSE <<>>} :
       \E p2 \in {IF state = "Warm" THEN p1
                  ELSE Settle(p1, "rejected",
                              "Cache is not warm, but expected to be so.")} :
           /\ applied' = IF state = "Warm"
                         THEN Append(applied, [error |-> myQuery.error,
                                               tasks |-> tasks])
                         ELSE applied
           /\ promise' = Settle(p2, "fulfilled", tasksExternal)
    /\ callbacks' = callbacks + 1
    /\ lastCallback' = [tasks |-> tasks, state |-> state]
    /\ UNCHANGED <<querySource, edVars, fnVars, xVars>>

NextQuery ==
    \/ \E q \in QuerySources : OneHotResolveQueryToTasks(q)
    \/ \E ts \in CacheTaskLists, st \in CacheStates :
           CacheUpdateCallback(ts, st)

SpecQuery == InitQuery /\ [][NextQuery]_vars

----------------------------------------------------------------------------
(* Claims about oneHotResolveQueryToTasks. *)

\* C6, as stated: when the query source fails to compile the promise is
\* rejected with that error and the errored query is never applied to the
\* task collection, whatever the cache state.
C6_ErroredQueryNeverApplied ==
    callbacks > 0 /\ Query(querySource).error # "undefined" =>
        /\ promise = [state |-> "rejected",
                      value |-> Query(querySource).error]
        /\ applied = <<>>

Settled(p) == p.state \in {"fulfilled", "rejected"}

\* The number of tasks in the groups before group g.
RECURSIVE TasksBefore(_, _)
TasksBefore(groups, g) ==
    IF g = 1 THEN 0
    ELSE TasksBefore(groups, g - 1) + Len(groups[g - 1].tasks)

\* list holds the tasks of the groups and no other: task i of group g, as a
\* TaskExternal, at the place after the tasks of the groups before g and the
\* tasks before i of g.
IsConcatenationOf(list, groups) ==
    /\ Len(list) = TasksBefore(groups, Len(groups) + 1)
    /\ \A g \in 1..Len(groups) : \A i \in 1..Len(groups[g].tasks) :
           list[TasksBefore(groups, g) + i] = TaskExternal(groups[g].tasks[i])

\* A step of the promise: settled, it stays as it is; pending, an invocation
\* of the callback fulfils it exactly if the state is Warm and the query
\* compiled, rejects it if the state is not Warm, and fulfils it with the
\* tasks of the groups in group order.
PromiseStep ==
    /\ Settled(promise) => promise' = promise
    /\ promise.state = "pending" /\ callbacks' = callbacks + 1 =>
           \A q \in {Query(querySource)} :
               /\ promise'.state = "fulfilled"
                      <=> lastCallback'.state = "Warm" /\ q.error = "undefined"
               /\ lastCallback'.state # "Warm" => promise'.state = "rejected"
               /\ promise'.state = "fulfilled" =>
                      IsConcatenationOf(promise'.value,
                          applyQueryToTasks(q, lastCallback'.tasks).groups)

\* C13: the promise is fulfilled with a task list only when the callback
\* receives the state Warm and the query compiled; when the cache is not Warm
\* it is rejected and never fulfilled; once settled its outcome never
\* changes, also if the callback is invoked again; the list it is fulfilled
\* with is the groups' tasks concatenated in group order, each group's order
\* kept.
C13_PromiseOutcome == [][PromiseStep]_vars

\* C13 witness: the promise was fulfilled with three tasks grouped by
\* status, the two to-do tasks before the done one, and is still so after
\* the callback was invoked again with a cold cache.
C13_Witness ==
    /\ querySource = <<"group by status">>
    /\ callbacks = 2
    /\ lastCallback.state = "Cold"
    /\ promise.state = "fulfilled"
    /\ Len(promise.value) = 3
    /\ promise.value[1].description = <<"a">>
    /\ promise.value[2].description = <<"c">>
    /\ promise.value[3].description = <<"b">>

----------------------------------------------------------------------------
(* The plugin's write helper: taskFromTaskExternal.                        *)

\* taskFromTaskExternal(taskExternal): null for null and for an
\* originalMarkdown taskRegex does not match; else a Task of the line's
\* indentation and list marker, the fields of taskExternal and a status
\* that is DONE or TODO.
taskFromTaskExternal(taskExternal) ==
    IF taskExternal = NullTask THEN NullTask
    ELSE LET line == taskExternal.originalMarkdown
         IN  IF ~taskRegexTest(line) THEN NullTask
             ELSE
    LET regexMatch == taskRegexMatch(line)
        body == Trim(regexMatch.body)
        fallbackDate == DateFallbackFromPath(taskExternal.uid.path)
        applies == canApplyFallback(taskExternal.startDate,
                                    taskExternal.scheduledDate,
                                    taskExternal.dueDate)
                       /\ fallbackDate # Null
        rc == RecSuffixLen(body)
        recurrenceRule ==
            IF rc > 0 THEN Trim(Slice(body, Len(body) - rc + 1, Len(body)))
            ELSE <<>>
    IN  [indentation |-> regexMatch.indentation,
         listMarker |-> regexMatch.listMarker,
         status |-> IF taskExternal.isDone THEN StatusDONE ELSE StatusTODO,
         description |-> taskExternal.description,
         recurrence |-> IF Len(recurrenceRule) > 0 /\ IsValidRule(recurrenceRule)
                        THEN RuleEveryMonth
                        ELSE Null,
         dueDate |-> taskExternal.dueDate,
         doneDate |-> taskExternal.doneDate,
         path |-> taskExternal.uid.path,
         sectionStart |-> taskExternal.uid.sectionIndex,
         sectionIndex |-> taskExternal.uid.taskIndex,
         precedingHeader |-> <<>>,
         startDate |-> taskExternal.startDate,
         scheduledDate |-> IF applies THEN fallbackDate
                           ELSE taskExternal.scheduledDate,
         scheduledDateIsInferred |-> applies,
         originalMarkdown |-> line]

\* The lines of the tasks that are converted: to do, in progress and done,
\* with and without a due date, a done date and a recurrence rule.
ExternalTaskLines ==
    {<<"-", " ">> \o Box(sym) \o <<" ">> \o b :
        sym \in {" ", "/", "x"},
        b \in {<<"a">>,
               <<"a", " ">> \o DueMark \o <<" ">> \o DateDec1,
               <<"a", " ">> \o RecMark \o <<" ">> \o RuleEveryMonth}}
    \cup {<<" ", " ", "*", " ">> \o Box("x") \o <<" ", "a">>
              \o DoneAnnotation(DateJan1)}

Headers == {Null, <<"h">>}

InitExternal ==
    /\ \E l \in ExternalTaskLines, path \in Paths, sectionStart \in 0..1,
          sectionIndex \in 0..1, header \in Headers, reg \in Registries :
           extTask = fromLineIn(l, <<>>, reg, path,
                                sectionStart, sectionIndex, header,
                                DateFallbackFromPath(path))
    /\ extResult = <<>>
    /\ EditorIdle
    /\ fnIn = FnIdle
    /\ fnOut = <<>>
    /\ QueryIdle

\* taskFromTaskExternal(new TaskExternal(task))
ConvertToExternalAndBack ==
    /\ extResult = <<>>
    /\ extResult' = <<taskFromTaskExternal(TaskExternal(extTask))>>
    /\ UNCHANGED <<extTask, edVars, fnVars, qVars>>

NextExternal == ConvertToExternalAndBack

SpecExternal == InitExternal /\ [][NextExternal]_vars

----------------------------------------------------------------------------
(* Claims about taskFromTaskExternal. *)

Converted == extResult # <<>>

\* C14, as stated: converting a Task to a TaskExternal and back preserves,
\* for every Task whose originalMarkdown matches the task pattern and every
\* registered status, the status, the path, sectionStart, sectionIndex, the
\* four dates and the scheduledDateIsInferred flag.
C14_RoundTripPreservesFields ==
    Converted /\ taskRegexTest(extTask.originalMarkdown) =>
        \A r \in {extResult[1]} :
            /\ r # NullTask
            /\ r.status = extTask.status
            /\ r.path = extTask.path
            /\ r.sectionStart = extTask.sectionStart
            /\ r.sectionIndex = extTask.sectionIndex
            /\ r.startDate = extTask.startDate
            /\ r.scheduledDate = extTask.scheduledDate
            /\ r.dueDate = extTask.dueDate
            /\ r.doneDate = extTask.doneDate
            /\ r.scheduledDateIsInferred = extTask.scheduledDateIsInferred

====
